---- MODULE Spec2Model ----
(***************************************************************************)
(* Model of prefect.telemetry.test_util (InstrumentationTester and its     *)
(* two factory helpers) and of the prefect-dbt CLI root callback `main`.   *)
(*                                                                         *)
(* The global OpenTelemetry registry is one slot per kind (tracer, meter). *)
(* A slot is Unset, holds the provider of unrelated code (Ext), or holds   *)
(* the provider a harness created.  Construction of a harness is modelled  *)
(* statement by statement (one action per statement of __init__), so that  *)
(* the passage of a slot through the unset state is visible and so that    *)
(* two constructions can interleave.                                       *)
(***************************************************************************)
EXTENDS Integers, Sequences, FiniteSets, TLC

VARIABLES
    reg,          \* global registry: [trace |-> provider, meter |-> provider]
    hs,           \* harness objects: pc of __init__ and the four attributes
    wired,        \* wired[h]: exporter the span processor of TP(h) forwards to
    exporterBuf,  \* exporterBuf[h]: finished spans held by exporter EXP(h)
    readersOf,    \* readersOf[h]: metric readers registered with MP(h)
    readerAgg,    \* readerAgg[h]: aggregation state seen by reader RD(h)
    emitLog,      \* history: every span emitted through the global API
    addLog,       \* history: every counter increment through the global API
    order,        \* history: per slot, the construction whose reset_*_globals call
                  \* reset it last (0: a reset() call, or none), the provider that
                  \* reset found in the slot, and the providers passed to
                  \* set_*_provider since, in call order
    cli           \* one run of the CLI root callback

vars == <<reg, hs, wired, exporterBuf, readersOf, readerAgg, emitLog, addLog, order, cli>>

telemetryVars == <<reg, hs, wired, exporterBuf, readersOf, readerAgg, emitLog,
                   addLog, order>>

----------------------------------------------------------------------------
(* Bounds *)

MaxHarness == 2
MaxSpans == 2
MaxAdds == 3

Harness == 1..MaxHarness
Attrs == {"abc123", "xyz789"}
Increments == {1, 2, 3}

----------------------------------------------------------------------------
(* Objects *)

None == [kind |-> "none", owner |-> 0]
Unset == [kind |-> "unset", owner |-> 0]
Ext == [kind |-> "ext", owner |-> 0]
TP(h) == [kind |-> "tracer", owner |-> h]
MP(h) == [kind |-> "meter", owner |-> h]
EXP(h) == [kind |-> "exporter", owner |-> h]
RD(h) == [kind |-> "reader", owner |-> h]

NewHarness ==
    [pc |-> "new", tracer_provider |-> None, memory_exporter |-> None,
     meter_provider |-> None, memory_metrics_reader |-> None]

\* Append p to the set calls seen since the last reset (a repeated call by
\* the same caller is recorded once).
Logged(sets, p) ==
    IF \E i \in DOMAIN sets : sets[i] = p THEN sets ELSE Append(sets, p)

InitOrder(slot) ==
    [sets |-> IF slot = Unset THEN <<>> ELSE <<slot>>, resetBy |-> 0, displaced |-> Unset]

----------------------------------------------------------------------------
(* The global registry (opentelemetry.trace / opentelemetry.metrics), as    *)
(* the harness relies on it: a set on a slot that is already set is         *)
(* ignored, and the test-only reset functions put a slot back to unset.     *)

\* Variant: the reset before the set is left out.
reset_trace_globals_skipped(r) == r

reset_trace_globals(r) == [r EXCEPT !.trace = Unset]

reset_metrics_globals(r) == [r EXCEPT !.meter = Unset]

\* Variant: a registry that lets a set replace the current provider.
set_tracer_provider_overwrite(r, p) == [r EXCEPT !.trace = p]

set_tracer_provider(r, p) == IF r.trace = Unset THEN [r EXCEPT !.trace = p] ELSE r

\* Variant: a registry that lets a set replace the current provider.
set_meter_provider_overwrite(r, p) == [r EXCEPT !.meter = p]

set_meter_provider(r, p) == IF r.meter = Unset THEN [r EXCEPT !.meter = p] ELSE r

----------------------------------------------------------------------------
(* The factory helpers *)

\* Variant: the processor wraps one exporter shared by every harness.
create_tracer_provider_shared(h) ==
    [tracer_provider |-> TP(h), memory_exporter |-> EXP(h), processor |-> EXP(1)]

\* Variant: add_span_processor is left out.
create_tracer_provider_unwired(h) ==
    [tracer_provider |-> TP(h), memory_exporter |-> EXP(h), processor |-> None]

\* A new provider, a new (empty) exporter, and a span processor wrapping
\* that exporter attached to the provider.
create_tracer_provider(h) ==
    [tracer_provider |-> TP(h), memory_exporter |-> EXP(h), processor |-> EXP(h)]

\* Variant: the reader is not appended to metric_readers.
create_meter_provider_no_reader(h) ==
    [meter_provider |-> MP(h), memory_metrics_reader |-> RD(h), metric_readers |-> <<>>]

\* A new reader appended to the (default empty) metric_readers list, and a
\* new provider constructed with that list.
create_meter_provider(h) ==
    LET memory_reader == RD(h)
        metric_readers == Append(<<>>, memory_reader)
    IN  [meter_provider |-> MP(h), memory_metrics_reader |-> memory_reader,
         metric_readers |-> metric_readers]

----------------------------------------------------------------------------
(* The telemetry pipeline behind the global API *)

\* InMemorySpanExporter.export: append to the buffer.
export(buf, span) == Append(buf, span)

\* InFlightSpanProcessor.on_end of the processor attached to provider p:
\* forward the completed span to the exporter it wraps.
on_end(bufs, p, span) ==
    IF p.kind = "tracer" /\ wired[p.owner] # None
    THEN [bufs EXCEPT ![wired[p.owner].owner] = export(@, span)]
    ELSE bufs

\* A counter measurement reaching the readers of provider p.
record_measurement(agg, p, v) ==
    IF p.kind = "meter"
    THEN [k \in Harness |->
            IF \E i \in DOMAIN readersOf[p.owner] : readersOf[p.owner][i] = RD(k)
            THEN [count |-> agg[k].count + 1, sum |-> agg[k].sum + v]
            ELSE agg[k]]
    ELSE agg

----------------------------------------------------------------------------
(* InstrumentationTester *)

\* Variant: the exporter is read from a class attribute shared by all
\* harnesses (that of the first one) instead of from self.
get_finished_spans_class_level(h) ==
    IF hs[h].memory_exporter = None THEN <<>> ELSE exporterBuf[1]

get_finished_spans(h) ==
    IF hs[h].memory_exporter = None THEN <<>>
    ELSE exporterBuf[hs[h].memory_exporter.owner]

\* Reading self.memory_metrics_reader: the data point of the counter, if any.
get_metrics_data(h) ==
    IF hs[h].memory_metrics_reader = None THEN [count |-> 0, sum |-> 0]
    ELSE readerAgg[hs[h].memory_metrics_reader.owner]

\* Variant: only the tracer slot is reset.
reset_trace_only(r) == reset_trace_globals(r)

reset(r) == reset_metrics_globals(reset_trace_globals(r))

Constructing(h) == hs[h].pc \notin {"new", "done"}

\* line 62
CreateTracer(h) ==
    /\ hs[h].pc = "new"
    /\ LET made == create_tracer_provider(h)
       IN  /\ hs' = [hs EXCEPT ![h].tracer_provider = made.tracer_provider,
                               ![h].memory_exporter = made.memory_exporter,
                               ![h].pc = "reset_trace"]
           /\ wired' = [wired EXCEPT ![h] = made.processor]
           /\ exporterBuf' = [exporterBuf EXCEPT ![made.memory_exporter.owner] = <<>>]
    /\ UNCHANGED <<reg, readersOf, readerAgg, emitLog, addLog, order, cli>>

\* line 65
ResetTrace(h) ==
    /\ hs[h].pc = "reset_trace"
    /\ reg' = reset_trace_globals(reg)
    /\ hs' = [hs EXCEPT ![h].pc = "set_tracer"]
    /\ order' = [order EXCEPT !.trace = [sets |-> <<>>, resetBy |-> h, displaced |-> reg.trace]]
    /\ UNCHANGED <<wired, exporterBuf, readersOf, readerAgg, emitLog, addLog, cli>>

\* line 66
SetTracer(h) ==
    /\ hs[h].pc = "set_tracer"
    /\ reg' = set_tracer_provider(reg, hs[h].tracer_provider)
    /\ hs' = [hs EXCEPT ![h].pc = "clear"]
    /\ order' = [order EXCEPT !.trace.sets = Logged(@, hs[h].tracer_provider)]
    /\ UNCHANGED <<wired, exporterBuf, readersOf, readerAgg, emitLog, addLog, cli>>

\* line 68
ClearExporter(h) ==
    /\ hs[h].pc = "clear"
    /\ exporterBuf' = [exporterBuf EXCEPT ![hs[h].memory_exporter.owner] = <<>>]
    /\ hs' = [hs EXCEPT ![h].pc = "reset_metrics"]
    /\ UNCHANGED <<reg, wired, readersOf, readerAgg, emitLog, addLog, order, cli>>

\* line 71
ResetMetrics(h) ==
    /\ hs[h].pc = "reset_metrics"
    /\ reg' = reset_metrics_globals(reg)
    /\ hs' = [hs EXCEPT ![h].pc = "create_meter"]
    /\ order' = [order EXCEPT !.meter = [sets |-> <<>>, resetBy |-> h, displaced |-> reg.meter]]
    /\ UNCHANGED <<wired, exporterBuf, readersOf, readerAgg, emitLog, addLog, cli>>

\* line 73
CreateMeter(h) ==
    /\ hs[h].pc = "create_meter"
    /\ LET made == create_meter_provider(h)
       IN  /\ hs' = [hs EXCEPT ![h].meter_provider = made.meter_provider,
                               ![h].memory_metrics_reader = made.memory_metrics_reader,
                               ![h].pc = "set_meter"]
           /\ readersOf' = [readersOf EXCEPT ![h] = made.metric_readers]
           /\ readerAgg' = [readerAgg EXCEPT ![made.memory_metrics_reader.owner] =
                                                [count |-> 0, sum |-> 0]]
    /\ UNCHANGED <<reg, wired, exporterBuf, emitLog, addLog, order, cli>>

\* line 74; __init__ returns
SetMeter(h) ==
    /\ hs[h].pc = "set_meter"
    /\ reg' = set_meter_provider(reg, hs[h].meter_provider)
    /\ hs' = [hs EXCEPT ![h].pc = "done"]
    /\ order' = [order EXCEPT !.meter.sets = Logged(@, hs[h].meter_provider)]
    /\ UNCHANGED <<wired, exporterBuf, readersOf, readerAgg, emitLog, addLog, cli>>

InitStep(h) ==
    \/ CreateTracer(h)
    \/ ResetTrace(h)
    \/ SetTracer(h)
    \/ ClearExporter(h)
    \/ ResetMetrics(h)
    \/ CreateMeter(h)
    \/ SetMeter(h)

\* Variant: reset() also clears the harness's exporter.
ResetAndClear(h) ==
    /\ hs[h].pc = "done"
    /\ reg' = reset(reg)
    /\ exporterBuf' = [exporterBuf EXCEPT ![hs[h].memory_exporter.owner] = <<>>]
    /\ order' = [trace |-> [sets |-> <<>>, resetBy |-> 0, displaced |-> Unset],
                 meter |-> [sets |-> <<>>, resetBy |-> 0, displaced |-> Unset]]
    /\ UNCHANGED <<hs, wired, readersOf, readerAgg, emitLog, addLog, cli>>

\* InstrumentationTester.reset, on a constructed harness
Reset(h) ==
    /\ hs[h].pc = "done"
    /\ reg' = reset(reg)
    /\ order' = [trace |-> [sets |-> <<>>, resetBy |-> 0, displaced |-> Unset],
                 meter |-> [sets |-> <<>>, resetBy |-> 0, displaced |-> Unset]]
    /\ UNCHANGED <<hs, wired, exporterBuf, readersOf, readerAgg, emitLog, addLog, cli>>

----------------------------------------------------------------------------
(* The environment: code that reports telemetry through the global API,     *)
(* and unrelated code that registers its own provider with a plain set.     *)

Done == {h \in Harness : hs[h].pc = "done"}

\* One span, started and ended, through trace.get_tracer(...) of the
\* provider installed at that moment.  Names are distinct by construction.
EmitSpan(a) ==
    /\ Len(emitLog) < MaxSpans
    /\ LET span == [name |-> Len(emitLog) + 1, attr |-> a]
       IN  /\ exporterBuf' = on_end(exporterBuf, reg.trace, span)
           /\ emitLog' = Append(emitLog, [span |-> span, via |-> reg.trace])
    /\ UNCHANGED <<reg, hs, wired, readersOf, readerAgg, addLog, order, cli>>

\* counter.add(v) on the one counter obtained through metrics.get_meter(...).
CounterAdd(v) ==
    /\ Len(addLog) < MaxAdds
    /\ readerAgg' = record_measurement(readerAgg, reg.meter, v)
    /\ addLog' = Append(addLog, [v |-> v, via |-> reg.meter])
    /\ UNCHANGED <<reg, hs, wired, exporterBuf, readersOf, emitLog, order, cli>>

ExtSetTracer ==
    /\ reg' = set_tracer_provider(reg, Ext)
    /\ order' = [order EXCEPT !.trace.sets = Logged(@, Ext)]
    /\ UNCHANGED <<hs, wired, exporterBuf, readersOf, readerAgg, emitLog, addLog, cli>>

ExtSetMeter ==
    /\ reg' = set_meter_provider(reg, Ext)
    /\ order' = [order EXCEPT !.meter.sets = Logged(@, Ext)]
    /\ UNCHANGED <<hs, wired, exporterBuf, readersOf, readerAgg, emitLog, addLog, cli>>

----------------------------------------------------------------------------
(* Specifications of the harness *)

CliIdle ==
    [pc |-> "idle", version |-> FALSE, profile |-> "<None>", prompt |-> FALSE,
     test_mode |-> FALSE, win32 |-> FALSE, entered |-> "<None>", console |-> FALSE,
     console_prompt |-> FALSE, logging |-> FALSE, policy |-> FALSE,
     printed |-> <<>>, exit |-> "none", events |-> <<>>]

InitTelemetry ==
    /\ reg \in [trace : {Unset, Ext}, meter : {Unset, Ext}]
    /\ hs = [h \in Harness |-> NewHarness]
    /\ wired = [h \in Harness |-> None]
    /\ exporterBuf = [h \in Harness |-> <<>>]
    /\ readersOf = [h \in Harness |-> <<>>]
    /\ readerAgg = [h \in Harness |-> [count |-> 0, sum |-> 0]]
    /\ emitLog = <<>>
    /\ addLog = <<>>
    /\ order = [trace |-> InitOrder(reg.trace), meter |-> InitOrder(reg.meter)]

Init == InitTelemetry /\ cli = CliIdle

\* Serialized use: nothing else runs while a construction is in progress.
Quiet == \A h \in Harness : ~Constructing(h)

Alone(h) == \A k \in Harness \ {h} : ~Constructing(k)

Next ==
    \/ \E h \in Harness : Alone(h) /\ InitStep(h)
    \/ \E h \in Harness : Quiet /\ Reset(h)
    \/ \E a \in Attrs : Quiet /\ EmitSpan(a)
    \/ Quiet /\ ExtSetTracer
    \/ Quiet /\ ExtSetMeter

Spec == Init /\ [][Next]_vars

\* The same serialized use, with the code under test reporting metrics.
NextMetrics ==
    \/ \E h \in Harness : Alone(h) /\ InitStep(h)
    \/ \E h \in Harness : Quiet /\ Reset(h)
    \/ \E v \in Increments : Quiet /\ CounterAdd(v)

SpecMetrics == Init /\ [][NextMetrics]_vars

\* Misuse: constructions that run concurrently, interleaved statement by
\* statement.
NextRace == \E h \in Harness : InitStep(h)

SpecRace == Init /\ [][NextRace]_vars

----------------------------------------------------------------------------
(* The prefect-dbt CLI root callback *)

CurrentProfile == "default"
KnownProfiles == {"default", "staging"}
\* "<None>": the option was not given.  "" is a given, empty name.
ProfileArgs == {"<None>", "", "default", "staging", "nope"}

\* Python truthiness of the --profile value
Truthy(profile) == profile \notin {"<None>", ""}

InitCli ==
    /\ reg = [trace |-> Unset, meter |-> Unset]
    /\ InitTelemetry
    /\ cli \in {[CliIdle EXCEPT !.pc = "start", !.version = ver, !.profile = p,
                                !.prompt = pr, !.test_mode = t, !.win32 = w] :
                  ver \in BOOLEAN, p \in ProfileArgs, pr \in BOOLEAN,
                  t \in BOOLEAN, w \in BOOLEAN}

\* version_callback, an eager option callback that runs before main
VersionCallback ==
    /\ cli.pc = "start"
    /\ cli' = IF cli.version
              THEN [cli EXCEPT !.pc = "exited", !.exit = "0",
                               !.printed = Append(@, "version"),
                               !.events = Append(@, "print_version")]
              ELSE [cli EXCEPT !.pc = "main"]
    /\ UNCHANGED telemetryVars

\* line 65
CheckProfile ==
    /\ cli.pc = "main"
    /\ cli' = IF Truthy(cli.profile) /\ ~(CurrentProfile = cli.profile)
              THEN [cli EXCEPT !.pc = "use_profile"]
              ELSE [cli EXCEPT !.pc = "setup_console"]
    /\ UNCHANGED telemetryVars

\* Variant: the KeyError handler prints but does not exit.
UseProfileNoExit ==
    /\ cli.pc = "use_profile"
    /\ cli' = IF cli.profile \in KnownProfiles
              THEN [cli EXCEPT !.pc = "setup_console", !.entered = cli.profile,
                               !.events = Append(@, "enter_profile")]
              ELSE [cli EXCEPT !.pc = "setup_console",
                               !.printed = Append(@, "unknown_profile"),
                               !.events = Append(@, "print_unknown_profile")]
    /\ UNCHANGED telemetryVars

\* lines 68-75: entering the profile context raises KeyError for a profile
\* that does not exist; exit(1) ends the process.
UseProfile ==
    /\ cli.pc = "use_profile"
    /\ cli' = IF cli.profile \in KnownProfiles
              THEN [cli EXCEPT !.pc = "setup_console", !.entered = cli.profile,
                               !.events = Append(@, "enter_profile")]
              ELSE [cli EXCEPT !.pc = "exited", !.exit = "1",
                               !.printed = Append(@, "unknown_profile"),
                               !.events = Append(@, "print_unknown_profile")]
    /\ UNCHANGED telemetryVars

\* line 78
SetupConsole ==
    /\ cli.pc = "setup_console"
    /\ cli' = [cli EXCEPT !.pc = "check_test_mode", !.console = TRUE,
                          !.console_prompt = cli.prompt,
                          !.events = Append(@, "setup_console")]
    /\ UNCHANGED telemetryVars

\* lines 80-84
SetupLogging ==
    /\ cli.pc = "check_test_mode"
    /\ cli' = IF ~cli.test_mode
              THEN [cli EXCEPT !.pc = "check_platform", !.logging = TRUE,
                               !.events = Append(@, "setup_logging")]
              ELSE [cli EXCEPT !.pc = "check_platform"]
    /\ UNCHANGED telemetryVars

\* lines 91-92; main returns
SetEventLoopPolicy ==
    /\ cli.pc = "check_platform"
    /\ cli' = IF cli.win32
              THEN [cli EXCEPT !.pc = "returned", !.policy = TRUE,
                               !.events = Append(@, "set_event_loop_policy")]
              ELSE [cli EXCEPT !.pc = "returned"]
    /\ UNCHANGED telemetryVars

NextCli ==
    \/ VersionCallback
    \/ CheckProfile
    \/ UseProfile
    \/ SetupConsole
    \/ SetupLogging
    \/ SetEventLoopPolicy

SpecCli == InitCli /\ [][NextCli]_vars

----------------------------------------------------------------------------
(* Properties *)

\* The log entries of the spans emitted while provider p was installed
ViaLog(p) == SelectSeq(emitLog, LAMBDA e : e.via = p)

SpansOf(log) == [i \in 1..Len(log) |-> log[i].span]

\* The increments made while provider p was installed
AddsVia(p) == SelectSeq(addLog, LAMBDA e : e.via = p)

RECURSIVE SumOf(_)
SumOf(log) == IF log = <<>> THEN 0 ELSE log[1].v + SumOf(Tail(log))

\* h finished __init__ and no construction or reset() has reset the slot since
FreshTrace(h) == hs[h].pc = "done" /\ order.trace.resetBy = h

FreshMeter(h) == hs[h].pc = "done" /\ order.meter.resetBy = h

\* C1: when a construction has completed (serialized use), whatever the
\* registry held before, the tracer slot holds this harness's tracer_provider
\* and the meter slot this harness's meter_provider; no statement of __init__
\* is ever blocked.
C1_ConstructInstalls ==
    \A h \in Harness :
        /\ FreshTrace(h) => hs[h].tracer_provider = TP(h) /\ reg.trace = TP(h)
        /\ FreshMeter(h) => hs[h].meter_provider = MP(h) /\ reg.meter = MP(h)
        /\ Constructing(h) => ENABLED InitStep(h)

\* A construction just replaced an earlier harness's providers in both slots.
C1_Witness ==
    \E h \in Harness :
        /\ FreshTrace(h) /\ FreshMeter(h)
        /\ order.trace.displaced.kind = "tracer"
        /\ order.meter.displaced.kind = "meter"
        /\ reg = [trace |-> TP(h), meter |-> MP(h)]

\* C2: every record get_finished_spans() returns was emitted while this
\* harness's tracer provider was the installed one, nothing is captured
\* before the construction has completed, and one span emitted under the
\* harness yields exactly that one record (name and attributes).
C2_Isolation ==
    \A h \in Harness :
        /\ \A i \in DOMAIN get_finished_spans(h) :
              \E j \in DOMAIN emitLog :
                  /\ emitLog[j].span = get_finished_spans(h)[i]
                  /\ emitLog[j].via = TP(h)
        /\ hs[h].pc # "done" => get_finished_spans(h) = <<>>
        /\ (hs[h].pc = "done" /\ Len(ViaLog(TP(h))) = 1) =>
              get_finished_spans(h) = <<ViaLog(TP(h))[1].span>>

\* Two harnesses, one constructed after the other, each captured a span.
C2_Witness ==
    \E h, k \in Harness :
        /\ h # k
        /\ hs[h].pc = "done" /\ hs[k].pc = "done"
        /\ Len(get_finished_spans(h)) = 1
        /\ Len(get_finished_spans(k)) >= 1

\* C3: the spans emitted under a constructed harness come back from
\* get_finished_spans() all, once each, in emission order.
C3_RoundTrip ==
    \A h \in Harness :
        hs[h].pc = "done" =>
            /\ get_finished_spans(h) = SpansOf(ViaLog(TP(h)))
            /\ \A i, j \in DOMAIN get_finished_spans(h) :
                  get_finished_spans(h)[i].name = get_finished_spans(h)[j].name => i = j

\* A harness captured MaxSpans spans.
C3_Witness ==
    \E h \in Harness :
        /\ hs[h].pc = "done"
        /\ Len(get_finished_spans(h)) = MaxSpans
        /\ MaxSpans >= 2

AfterResetTrace ==
    Quiet /\ Done # {} /\ order.trace.resetBy = 0 /\ order.trace.sets = <<>>

AfterResetMeter ==
    Quiet /\ Done # {} /\ order.meter.resetBy = 0 /\ order.meter.sets = <<>>

\* C5: reset() is always possible on a constructed harness, leaves both
\* slots unset, a second reset() changes nothing, and a construction that
\* starts from the unset registry gets both providers installed.
C5_ResetIdempotent ==
    /\ AfterResetTrace => reg.trace = Unset
    /\ AfterResetMeter => reg.meter = Unset
    /\ reset(reg) = [trace |-> Unset, meter |-> Unset]
    /\ reset(reset(reg)) = reset(reg)
    /\ (AfterResetTrace /\ AfterResetMeter) => reset(reg) = reg
    /\ \A h \in Harness :
          /\ hs[h].pc = "done" => ENABLED Reset(h)
          /\ (FreshTrace(h) /\ order.trace.displaced = Unset) => reg.trace = TP(h)
          /\ (FreshMeter(h) /\ order.meter.displaced = Unset) => reg.meter = MP(h)

\* A harness was constructed after the reset() of an earlier harness.
C5_Witness ==
    \E h, k \in Harness :
        /\ h # k
        /\ hs[k].pc = "done"
        /\ FreshTrace(h) /\ FreshMeter(h)
        /\ order.trace.displaced = Unset /\ order.meter.displaced = Unset
        /\ reg = [trace |-> TP(h), meter |-> MP(h)]

AllDone == \A h \in Harness : hs[h].pc = "done"

LastOf(q) == q[Len(q)]

\* C6 as stated: after concurrent constructions, a slot holds the provider
\* of the construction that performed its reset and its install last.
C6_LastWriterWins ==
    AllDone =>
        \A h \in Harness :
            /\ (order.trace.resetBy = h /\ LastOf(order.trace.sets) = TP(h)) =>
                  reg.trace = TP(h)
            /\ (order.meter.resetBy = h /\ LastOf(order.meter.sets) = MP(h)) =>
                  reg.meter = MP(h)

\* C6 amended: after concurrent constructions, a slot holds the provider of
\* the construction whose set was the first to follow the last reset of that
\* slot; it is some harness's provider, and the set of the construction that
\* reset last is among the sets that followed.
C6_FirstSetAfterLastResetWins ==
    AllDone =>
        /\ order.trace.sets # <<>> /\ reg.trace = order.trace.sets[1]
        /\ order.meter.sets # <<>> /\ reg.meter = order.meter.sets[1]
        /\ reg.trace.kind = "tracer" /\ reg.meter.kind = "meter"
        /\ \E i \in DOMAIN order.trace.sets :
              order.trace.sets[i] = TP(order.trace.resetBy)
        /\ \E i \in DOMAIN order.meter.sets :
              order.meter.sets[i] = MP(order.meter.resetBy)

\* Both constructions finished and the last writer's tracer provider was lost.
C6_Witness ==
    /\ AllDone
    /\ Len(order.trace.sets) >= 2
    /\ reg.trace # LastOf(order.trace.sets)

\* C7: what a constructed harness's metric reader reports for the counter is
\* the sum (and the number) of the increments made while the harness's meter
\* provider was installed.
C7_MetricSum ==
    \A h \in Harness :
        hs[h].pc = "done" =>
            /\ get_metrics_data(h).sum = SumOf(AddsVia(MP(h)))
            /\ get_metrics_data(h).count = Len(AddsVia(MP(h)))

\* The increments 1, 2, 3 under one harness: the reader reports 6.
C7_Witness ==
    \E h \in Harness :
        /\ hs[h].pc = "done"
        /\ addLog = <<[v |-> 1, via |-> MP(h)], [v |-> 2, via |-> MP(h)],
                      [v |-> 3, via |-> MP(h)]>>
        /\ get_metrics_data(h).sum = 6

C9_ResetFrame ==
    [][/\ (\E h \in Harness : Reset(h)) =>
              /\ hs' = hs /\ wired' = wired /\ exporterBuf' = exporterBuf
              /\ readersOf' = readersOf /\ readerAgg' = readerAgg
              /\ \A k \in Harness : get_finished_spans(k)' = get_finished_spans(k)
       /\ (emitLog' # emitLog /\ reg.trace = Unset) =>
              \A k \in Harness : get_finished_spans(k)' = get_finished_spans(k)]_vars

\* A harness captured a span, reset() was called, and a span was emitted
\* with the tracer slot unset.
C9_Witness ==
    \E h \in Harness :
        /\ hs[h].pc = "done" /\ Quiet
        /\ Len(get_finished_spans(h)) >= 1
        /\ reg.trace = Unset
        /\ emitLog # <<>> /\ LastOf(emitLog).via = Unset

Differs == Truthy(cli.profile) /\ cli.profile # CurrentProfile

Before(a, b) ==
    \A j \in DOMAIN cli.events :
        cli.events[j] = b => \E i \in 1..(j - 1) : cli.events[i] = a

\* C10: a profile other than the current one is entered before the console
\* is configured; an unknown one ends the run with status 1 after printing
\* the message, with no console, logging or event loop policy set up;
\* without a (different) profile nothing is entered, the console is always
\* configured and logging is set up exactly when test mode is off.
C10_MainOrdering ==
    /\ Differs => Before("enter_profile", "setup_console")
    /\ (Differs /\ cli.console) => cli.entered = cli.profile
    /\ (Differs /\ cli.profile \notin KnownProfiles) =>
          /\ ~cli.console /\ ~cli.logging /\ ~cli.policy
          /\ cli.pc \notin {"setup_console", "check_test_mode", "check_platform",
                            "returned"}
          /\ (cli.pc = "exited" /\ ~cli.version) =>
                cli.exit = "1" /\ cli.printed = <<"unknown_profile">>
    /\ cli.exit = "1" => Differs /\ cli.profile \notin KnownProfiles
    /\ (~Differs /\ cli.pc # "idle") => cli.entered = "<None>"
    /\ (~Differs /\ cli.pc = "returned") =>
          cli.console /\ (cli.logging <=> ~cli.test_mode)

\* A run with an unknown profile ended with status 1.
C10_Witness ==
    /\ cli.pc = "exited"
    /\ cli.profile = "nope"
    /\ cli.exit = "1"

====
